---- MODULE Spec2Model ----
(***************************************************************************)
(* The md5sum element of gst-md5sum (src/gstmd5sum.c): a GstBaseTransform  *)
(* whose in-place transform prints a marker unless `silent`, logs the      *)
(* buffer's size, hashes with G_CHECKSUM_MD5 and logs the digest, and      *)
(* whose only property is the controllable boolean `silent`.               *)
(***************************************************************************)
EXTENDS Integers, Sequences, FiniteSets, TLC

\* Bounds of the model.
MaxBuffers == 2
MaxLen == 3
MaxTime == 1

\* enum { PROP_0, PROP_SILENT } and GST_CLOCK_TIME_NONE ((GstClockTime) -1).
PROP_0 == 0
PROP_SILENT == 1
GST_CLOCK_TIME_NONE == -1

(***************************************************************************)
(* MD5 (G_CHECKSUM_MD5) over 32-bit words.  A word is a pair <<hi, lo>> of *)
(* 16-bit halves, so that every intermediate value stays below 2^31.       *)
(***************************************************************************)
Half == 65536

RECURSIVE And16(_, _, _)
And16(x, y, n) ==
  IF n = 0 THEN 0
  ELSE (x % 2) * (y % 2) + 2 * And16(x \div 2, y \div 2, n - 1)

RECURSIVE Xor16(_, _, _)
Xor16(x, y, n) ==
  IF n = 0 THEN 0
  ELSE (((x % 2) + (y % 2)) % 2) + 2 * Xor16(x \div 2, y \div 2, n - 1)

WAnd(a, b) == << And16(a[1], b[1], 16), And16(a[2], b[2], 16) >>

WXor(a, b) == << Xor16(a[1], b[1], 16), Xor16(a[2], b[2], 16) >>

WNot(a) == << Half - 1 - a[1], Half - 1 - a[2] >>

WOr(a, b) == WNot(WAnd(WNot(a), WNot(b)))

WAdd(a, b) ==
  LET lo == a[2] + b[2]
  IN  << (a[1] + b[1] + (lo \div Half)) % Half, lo % Half >>

Pow2(n) == IF n = 0 THEN 1 ELSE 2 ^ n

RotateLeft(w, s) ==
  LET x == IF s >= 16 THEN << w[2], w[1] >> ELSE w
      r == s % 16
  IN  << ((x[1] * Pow2(r)) % Half) + (x[2] \div Pow2(16 - r)),
         ((x[2] * Pow2(r)) % Half) + (x[1] \div Pow2(16 - r)) >>

MD5_T ==
  <<
    <<55146, 42104>>, <<59591, 46934>>, <<9248, 28891>>, <<49597, 52974>>,
    <<62844, 4015>>, <<18311, 50730>>, <<43056, 17939>>, <<64838, 38145>>,
    <<27008, 39128>>, <<35652, 63407>>, <<65535, 23473>>, <<35164, 55230>>,
    <<27536, 4386>>, <<64920, 29075>>, <<42617, 17294>>, <<18868, 2081>>,
    <<63006, 9570>>, <<49216, 45888>>, <<9822, 23121>>, <<59830, 51114>>,
    <<54831, 4189>>, <<580, 5203>>, <<55457, 59009>>, <<59347, 64456>>,
    <<8673, 52710>>, <<49975, 2006>>, <<62677, 3463>>, <<17754, 5357>>,
    <<43491, 59653>>, <<64751, 41976>>, <<26479, 729>>, <<36138, 19594>>,
    <<65530, 14658>>, <<34673, 63105>>, <<28061, 24866>>, <<64997, 14348>>,
    <<42174, 59972>>, <<19422, 53161>>, <<63163, 19296>>, <<48831, 48240>>,
    <<10395, 32454>>, <<60065, 10234>>, <<54511, 12421>>, <<1160, 7429>>,
    <<55764, 53305>>, <<59099, 39397>>, <<8098, 31992>>, <<50348, 22117>>,
    <<62505, 8772>>, <<17194, 65431>>, <<43924, 9127>>, <<64659, 41017>>,
    <<25947, 22979>>, <<36620, 52370>>, <<65519, 62589>>, <<34180, 24017>>,
    <<28584, 32335>>, <<65068, 59104>>, <<41729, 17172>>, <<19976, 4513>>,
    <<63315, 32386>>, <<48442, 62005>>, <<10967, 53947>>, <<60294, 54161>> >>

MD5_S ==
  << 7, 12, 17, 22, 7, 12, 17, 22, 7, 12, 17, 22, 7, 12, 17, 22,
     5,  9, 14, 20, 5,  9, 14, 20, 5,  9, 14, 20, 5,  9, 14, 20,
     4, 11, 16, 23, 4, 11, 16, 23, 4, 11, 16, 23, 4, 11, 16, 23,
     6, 10, 15, 21, 6, 10, 15, 21, 6, 10, 15, 21, 6, 10, 15, 21 >>

MD5_IV == << <<26437, 8961>>, <<61389, 43913>>, <<39098, 56574>>, <<4146, 21622>> >>

\* The message with MD5's padding: 0x80, zeros up to 56 mod 64, and the
\* length in bits as eight little-endian bytes.
MD5Pad(bytes) ==
  LET n    == Len(bytes)
      k    == (119 - n) % 64
      bits == 8 * n
  IN  bytes \o << 128 >> \o [i \in 1..k |-> 0]
        \o [i \in 1..8 |-> IF i <= 3 THEN (bits \div (256 ^ (i - 1))) % 256 ELSE 0]

\* Word j (0..15) of block b (0-based) of the padded message, little-endian.
MD5Word(p, b, j) ==
  LET o == 64 * b + 4 * j
  IN  << p[o + 3] + (256 * p[o + 4]), p[o + 1] + (256 * p[o + 2]) >>

\* One of the 64 operations of a block, on the state st = <<A, B, C, D>>.
MD5Step(st, i, p, b) ==
  LET A == st[1]
      B == st[2]
      C == st[3]
      D == st[4]
      f == IF i < 16 THEN WOr(WAnd(B, C), WAnd(WNot(B), D))
           ELSE IF i < 32 THEN WOr(WAnd(D, B), WAnd(WNot(D), C))
           ELSE IF i < 48 THEN WXor(B, WXor(C, D))
           ELSE WXor(C, WOr(B, WNot(D)))
      g == IF i < 16 THEN i
           ELSE IF i < 32 THEN (5 * i + 1) % 16
           ELSE IF i < 48 THEN (3 * i + 5) % 16
           ELSE (7 * i) % 16
      x == WAdd(WAdd(WAdd(f, A), MD5_T[i + 1]), MD5Word(p, b, g))
  IN  << D, WAdd(B, RotateLeft(x, MD5_S[i + 1])), B, C >>

\* Operations i .. n-1 of block b, from the state st.
RECURSIVE MD5Rounds(_, _, _, _, _)
MD5Rounds(st, i, n, p, b) ==
  IF i = n THEN st
  ELSE LET next == MD5Step(st, i, p, b)
       IN  IF next \in Seq(Seq(Nat)) THEN MD5Rounds(next, i + 1, n, p, b) ELSE << >>

\* The four rounds of sixteen operations on block b.
MD5Block(st, p, b) ==
  LET r1 == MD5Rounds(st, 0, 16, p, b)
      r2 == MD5Rounds(r1, 16, 32, p, b)
      r3 == MD5Rounds(r2, 32, 48, p, b)
      r4 == MD5Rounds(r3, 48, 64, p, b)
  IN  [k \in 1..4 |-> WAdd(st[k], r4[k])]

RECURSIVE MD5Blocks(_, _, _)
MD5Blocks(st, p, b) ==
  IF 64 * b >= Len(p) THEN st ELSE MD5Blocks(MD5Block(st, p, b), p, b + 1)

HexDigits ==
  << "0", "1", "2", "3", "4", "5", "6", "7", "8", "9", "a", "b", "c", "d", "e", "f" >>

HexByte(x) == HexDigits[(x \div 16) + 1] \o HexDigits[(x % 16) + 1]

\* A word's four bytes, least significant first, in lowercase hexadecimal.
HexWord(w) ==
  HexByte(w[2] % 256) \o HexByte(w[2] \div 256) \o HexByte(w[1] % 256) \o HexByte(w[1] \div 256)

MD5Hex(bytes) ==
  LET st == MD5Blocks(MD5_IV, MD5Pad(bytes), 0)
  IN  HexWord(st[1]) \o HexWord(st[2]) \o HexWord(st[3]) \o HexWord(st[4])

(***************************************************************************)
(* Inputs.                                                                 *)
(***************************************************************************)

\* Content of n bytes: "a", "ab", "abc", ...
Payload(n) == [i \in 1..n |-> 96 + i]

\* GST_CLOCK_TIME_IS_VALID
GST_CLOCK_TIME_IS_VALID(ts) == ts # GST_CLOCK_TIME_NONE

Timestamps == {GST_CLOCK_TIME_NONE} \cup (0..MaxTime)

\* A buffer as the host delivers it: its declared size (empty or MaxLen
\* bytes), the bytes accessible at its data pointer (all `size` of them, or
\* one fewer when the upstream broke its contract) and its timestamp.
Buffers ==
  { [size |-> n, data |-> Payload(m), ts |-> t] :
      n \in {0, MaxLen}, m \in 0..MaxLen, t \in Timestamps }

Delivered == { b \in Buffers : Len(b.data) \in {b.size, b.size - 1} }

WellFormed(b) == Len(b.data) = b.size

\* Object representations of the GstBuffer structure (the bytes at outbuf).
ObjectImages == { [i \in 1..MaxLen |-> 0], Payload(MaxLen) }

\* The controller's schedule for `silent`: nothing, or one change to v at t.
NoChange == [t |-> GST_CLOCK_TIME_NONE, v |-> FALSE]

Schedules == {NoChange} \cup { [t |-> t, v |-> v] : t \in 1..MaxTime, v \in BOOLEAN }

PropIds == {PROP_0, PROP_SILENT}

(***************************************************************************)
(* GChecksum with G_CHECKSUM_MD5.                                          *)
(***************************************************************************)

\* As ChecksumInput, but hashing the whole object whatever the size says.
WholeObject(o, b) == o

\* g_checksum_update (md5sum, outbuf, GST_BUFFER_SIZE (outbuf)): the bytes fed
\* to the checksum are the first `size` bytes at the address outbuf, which is
\* the GstBuffer object itself (its object representation o), not the data
\* the buffer points to.
ChecksumInput(o, b) == SubSeq(o, 1, b.size)

\* MD5 of every byte sequence the model can hash, computed once.
Hashable ==
  { SubSeq(o, 1, n) : o \in ObjectImages, n \in 0..MaxLen }
    \cup { Payload(n) : n \in 0..MaxLen }

MD5Table == [x \in Hashable |-> MD5Hex(x)]

\* g_checksum_get_string: the digest in lowercase hexadecimal.
g_checksum_get_string(bytes) ==
  IF bytes \in Hashable THEN MD5Table[bytes] ELSE MD5Hex(bytes)

VARIABLES
  silent,   \* filter->silent
  ctrl,     \* the controller's schedule
  obj,      \* the bytes at the address of the buffer object
  pc,       \* position of the streaming thread in gst_md5sum_transform_ip
  nbuf,     \* buffers delivered so far; the current buffer's number
  buf,      \* the buffer in the transform (as the transform leaves it)
  inbuf,    \* the buffer as it was delivered
  acted,    \* the value of filter->silent the gating check read
  reads,    \* reads of filter->silent by the gating check in this call
  held,     \* values filter->silent has held in this call, up to that read
  pre,      \* filter->silent just before the controller sync of this call
  raced,    \* a set_property ran between the sync and the gating read
  log,      \* what g_print and g_message have emitted, in order
  live,     \* GChecksum contexts allocated and not freed
  ret,      \* the flow return of the last call
  warned    \* the last step was a property call with an invalid id

vars ==
  << silent, ctrl, obj, pc, nbuf, buf, inbuf, acted, reads, held, pre, raced,
     log, live, ret, warned >>

NoBuffer == [size |-> 0, data |-> << >>, ts |-> GST_CLOCK_TIME_NONE]

\* gst_md5sum_init: filter->silent = FALSE.
Init ==
  /\ silent = FALSE
  /\ ctrl \in Schedules
  /\ obj \in ObjectImages
  /\ pc = "idle"
  /\ nbuf = 0
  /\ buf = NoBuffer
  /\ inbuf = NoBuffer
  /\ acted = FALSE
  /\ reads = 0
  /\ held = {}
  /\ pre = FALSE
  /\ raced = FALSE
  /\ log = << >>
  /\ live = 0
  /\ ret = "none"
  /\ warned = FALSE

(***************************************************************************)
(* The configuration channel.                                              *)
(***************************************************************************)

\* As SetPropertyResult, but with the assignment outside the switch.
SetPropertyAnyId(s, prop_id, value) == value

\* gst_md5sum_set_property's switch on prop_id.
SetPropertyResult(s, prop_id, value) ==
  IF prop_id = PROP_SILENT THEN value ELSE s

\* default: G_OBJECT_WARN_INVALID_PROPERTY_ID
InvalidPropertyId(prop_id) == prop_id # PROP_SILENT

gst_md5sum_set_property(prop_id, value) ==
  /\ silent' = SetPropertyResult(silent, prop_id, value)
  /\ held' = IF pc \in {"sync", "gate"} THEN held \cup {silent'} ELSE held
  /\ raced' = (raced \/ pc = "gate")
  /\ warned' = InvalidPropertyId(prop_id)
  /\ UNCHANGED << ctrl, obj, pc, nbuf, buf, inbuf, acted, reads, pre, log, live, ret >>

\* gst_md5sum_get_property: g_value_set_boolean (value, filter->silent) or a
\* warning; the element is left as it was.
gst_md5sum_get_property(prop_id) ==
  /\ warned' = InvalidPropertyId(prop_id)
  /\ UNCHANGED << silent, ctrl, obj, pc, nbuf, buf, inbuf, acted, reads, held, pre,
                  raced, log, live, ret >>

(***************************************************************************)
(* gst_md5sum_transform_ip                                                 *)
(***************************************************************************)

\* gst_object_sync_values (filter, ts): the controlled property takes the
\* value scheduled at or before ts, through the element's set_property.
gst_object_sync_values(s, ts, c) ==
  IF c # NoChange /\ c.t <= ts THEN SetPropertyResult(s, PROP_SILENT, c.v) ELSE s

\* As SyncedSilent, but without the call to gst_object_sync_values.
UnsyncedSilent(s, ts, c) == s

\* if (GST_CLOCK_TIME_IS_VALID (ts)) gst_object_sync_values (filter, ts);
SyncedSilent(s, ts, c) ==
  IF GST_CLOCK_TIME_IS_VALID(ts) THEN gst_object_sync_values(s, ts, c) ELSE s

\* As ReadSilent, but using the value the flag was constructed with.
CachedSilent(s) == FALSE

\* The read of filter->silent in `filter->silent == FALSE`: one load of an
\* aligned gboolean, unsynchronised with set_property's store.  The steps of
\* the two threads interleave freely, so the load yields the value before
\* or after any concurrent store.
ReadSilent(s) == s

\* As EmitsMarker, but printing when silent.
EmitsMarkerInverted(v) == v = TRUE

\* if (filter->silent == FALSE) g_print (...)
EmitsMarker(v) == v = FALSE

MarkerEntry(id) == [kind |-> "marker", buf |-> id]

SizeEntry(id, n) == [kind |-> "size", buf |-> id, bytes |-> n]

DigestEntry(id, d) == [kind |-> "digest", buf |-> id, hex |-> d]

\* As DigestEntries, but with the size reported after the digest.
DigestBeforeSize(id, b, o) ==
  << DigestEntry(id, MD5Hex(SubSeq(o, 1, b.size))), SizeEntry(id, b.size) >>

\* g_message ("Received buffer: %d bytes", ...), the checksum, and
\* g_message ("Buffer's digest: %s", digest).
DigestEntries(id, b, o) ==
  << SizeEntry(id, b.size),
     DigestEntry(id, g_checksum_get_string(ChecksumInput(o, b))) >>

\* As BufferAfterTransform, but leaving the buffer emptied.
BufferTruncated(b) == [b EXCEPT !.size = 0]

\* The buffer as the transform leaves it: nothing writes to it.
BufferAfterTransform(b) == b

\* GChecksum contexts live after a call that found n: g_checksum_new
\* without a g_checksum_free.
LiveAfterTransform(n) == n + 1

\* The host hands a buffer to the transform.
Chain(b) ==
  /\ pc = "idle"
  /\ nbuf < MaxBuffers
  /\ nbuf' = nbuf + 1
  /\ buf' = b
  /\ inbuf' = b
  /\ pc' = "sync"
  /\ acted' = FALSE
  /\ reads' = 0
  /\ held' = {silent}
  /\ pre' = silent
  /\ raced' = FALSE
  /\ ret' = "none"
  /\ warned' = FALSE
  /\ UNCHANGED << silent, ctrl, obj, log, live >>

TransformSync ==
  /\ pc = "sync"
  /\ pre' = silent
  /\ silent' = SyncedSilent(silent, buf.ts, ctrl)
  /\ held' = held \cup {silent'}
  /\ raced' = FALSE
  /\ pc' = "gate"
  /\ warned' = FALSE
  /\ UNCHANGED << ctrl, obj, nbuf, buf, inbuf, acted, reads, log, live, ret >>

TransformGate ==
  /\ pc = "gate"
  /\ acted' = ReadSilent(silent)
  /\ reads' = reads + 1
  /\ log' = IF EmitsMarker(acted') THEN Append(log, MarkerEntry(nbuf)) ELSE log
  /\ pc' = "digest"
  /\ warned' = FALSE
  /\ UNCHANGED << silent, ctrl, obj, nbuf, buf, inbuf, held, pre, raced, live, ret >>

\* Lines 191-197: the two messages around the checksum, which is allocated
\* and never freed, and return GST_FLOW_OK.  The call's locals end with it.
TransformDigest ==
  /\ pc = "digest"
  /\ log' = log \o DigestEntries(nbuf, buf, obj)
  /\ live' = LiveAfterTransform(live)
  /\ buf' = BufferAfterTransform(buf)
  /\ ret' = "GST_FLOW_OK"
  /\ pc' = "idle"
  /\ acted' = FALSE
  /\ reads' = 0
  /\ held' = {}
  /\ pre' = FALSE
  /\ raced' = FALSE
  /\ warned' = FALSE
  /\ UNCHANGED << silent, ctrl, obj, nbuf, inbuf >>

Next ==
  \/ \E b \in Delivered : Chain(b)
  \/ TransformSync
  \/ TransformGate
  \/ TransformDigest
  \/ \E id \in PropIds, v \in BOOLEAN : gst_md5sum_set_property(id, v)
  \/ \E id \in PropIds : gst_md5sum_get_property(id)

Spec == Init /\ [][Next]_vars

(***************************************************************************)
(* The log, read per buffer.                                               *)
(***************************************************************************)

EntriesOf(id) == SelectSeq(log, LAMBDA e : e.buf = id)

Kinds(entries) == [i \in 1..Len(entries) |-> entries[i].kind]

MarkersOf(id) == Len(SelectSeq(log, LAMBDA e : e.buf = id /\ e.kind = "marker"))

\* Buffer number id has been through the whole transform.
Completed(id) == id < nbuf \/ (id = nbuf /\ pc = "idle")

\* A call has returned and no other has begun.
Returned == pc = "idle" /\ nbuf > 0

\* The last two entries of the log.
LastPair == SubSeq(log, Len(log) - 1, Len(log))

(***************************************************************************)
(* Properties.                                                             *)
(***************************************************************************)

\* C1: the log holds, for every buffer that has been through the transform,
\* exactly one size entry followed by one digest entry, preceded by at most
\* one marker; the buffers' entries lie in delivery order, none missing,
\* none repeated, and a buffer still in the transform has at most its marker.
OrderedPairs ==
  /\ \A i, j \in 1..Len(log) : i < j => log[i].buf <= log[j].buf
  /\ \A i \in 1..Len(log) : log[i].buf \in 1..nbuf
  /\ \A id \in 1..nbuf :
       IF Completed(id)
       THEN Kinds(EntriesOf(id)) \in
              { << "size", "digest" >>, << "marker", "size", "digest" >> }
       ELSE Kinds(EntriesOf(id)) \in { << >>, << "marker" >> }

\* Two buffers are through, the first with its marker, the second without.
OrderedPairsWitness ==
  /\ pc = "idle"
  /\ nbuf = 2
  /\ Kinds(log) = << "marker", "size", "digest", "size", "digest" >>
  /\ inbuf.ts # GST_CLOCK_TIME_NONE

\* C2: once the gating check has read the flag for a buffer, that buffer has
\* no marker in the log if the value read was TRUE and exactly one if it was
\* FALSE; before the read it has none.
SilentGating ==
  /\ pc \in {"sync", "gate"} => MarkersOf(nbuf) = 0
  /\ pc = "digest" => MarkersOf(nbuf) = (IF acted THEN 0 ELSE 1)

\* The second buffer was read silent after the first got its marker.
SilentGatingWitness ==
  /\ pc = "digest"
  /\ nbuf = 2
  /\ acted
  /\ MarkersOf(1) = 1
  /\ MarkersOf(2) = 0

DigestOfContent ==
  (Returned /\ WellFormed(inbuf)) =>
    LastPair = << SizeEntry(nbuf, Len(inbuf.data)),
                  DigestEntry(nbuf, MD5Hex(inbuf.data)) >>

\* C5: a call on a buffer whose declared size exceeds its accessible bytes
\* fails with MalformedBufferError and logs neither size nor digest for it.
MalformedRejected ==
  (Returned /\ ~WellFormed(inbuf)) =>
    /\ ret = "MalformedBufferError"
    /\ Kinds(EntriesOf(nbuf)) \in { << >>, << "marker" >> }

\* C6: the buffer is at every moment of the call, and when the call has
\* returned GST_FLOW_OK, the buffer that was delivered: same size, same
\* content, same timestamp.
PassThrough ==
  /\ buf = inbuf
  /\ Returned => ret = "GST_FLOW_OK"

\* A call on a buffer of MaxLen bytes has returned.
PassThroughWitness ==
  /\ Returned
  /\ inbuf.size = MaxLen
  /\ WellFormed(inbuf)
  /\ buf = inbuf

\* C7: the call reads the flag once, at the gating check; the value read is
\* one the flag held between the call's entry and that read, whatever
\* set_property calls ran meanwhile, and the marker follows that value.
CoherentRead ==
  /\ pc \in {"idle", "sync", "gate"} => reads = 0
  /\ pc = "digest" =>
       /\ reads = 1
       /\ acted \in held
       /\ EmitsMarker(acted) <=> MarkersOf(nbuf) = 1

\* The flag took both values during the call, one of them set between the
\* sync and the read, and was set again after the read.
CoherentReadWitness ==
  /\ pc = "digest"
  /\ held = BOOLEAN
  /\ raced
  /\ acted # silent

\* C8: a call on a zero-length buffer returns GST_FLOW_OK having logged size
\* 0 and the digest d41d8cd98f00b204e9800998ecf8427e.
EmptyBuffer ==
  (Returned /\ inbuf.size = 0) =>
    /\ ret = "GST_FLOW_OK"
    /\ LastPair = << SizeEntry(nbuf, 0),
                     DigestEntry(nbuf, "d41d8cd98f00b204e9800998ecf8427e") >>

\* A call on a zero-length buffer has returned, the object at outbuf
\* holding bytes of its own.
EmptyBufferWitness ==
  /\ Returned
  /\ inbuf.size = 0
  /\ Len(obj) > 0
  /\ log[Len(log)].kind = "digest"

\* C9: `silent` is FALSE after gst_md5sum_init, and a step changes it only
\* if it is gst_md5sum_set_property with PROP_SILENT, called on the
\* configuration channel or by the controller's sync for a due change: no
\* other step of the transform, no get_property and no call with an invalid
\* property id changes it.
SilentOnlyBySetProperty ==
  /\ silent = FALSE
  /\ [][ silent' # silent =>
           /\ ~warned'
           /\ \/ \E v \in BOOLEAN : gst_md5sum_set_property(PROP_SILENT, v)
              \/ /\ TransformSync
                 /\ silent' = SetPropertyResult(silent, PROP_SILENT, ctrl.v) ]_vars

\* The flag has been set, and a call with an invalid property id left it set.
SilentOnlyBySetPropertyWitness ==
  /\ silent = TRUE
  /\ warned

\* C10: between calls the stage owns no GChecksum context.
NoLiveChecksum == pc = "idle" => live = 0

====
